---- MODULE Spec2Model ----
(***************************************************************************)
(* Model of packages/hw-app-hedera/src/Hedera.ts: the Hedera app API that  *)
(* serialises a BIP 32 path, splits a transaction into APDU frames, sends  *)
(* them one after the other over a transport and decodes the replies.      *)
(*                                                                         *)
(* One behaviour is one call of a public method on one Hedera instance.    *)
(* The transport is the environment: it answers a send with any reply of   *)
(* the set Replies or rejects it.                                          *)
(***************************************************************************)
EXTENDS Integers, Sequences, FiniteSets, TLC

\* ------------------------------------------------------------ constants

CHUNK_SIZE == 250
CLA == 224
INS_GET_VERSION == 0
INS_GET_ADDR == 2
INS_SIGN == 4
PAYLOAD_TYPE_INIT == 0
PAYLOAD_TYPE_ADD == 1
PAYLOAD_TYPE_LAST == 2
SW_OK == 36864
SW_CANCEL == 27014

\* The value of a JavaScript arithmetic expression with an undefined operand
\* (errorCodeData[1] of a reply shorter than two bytes): no 16-bit value.
NaN == -1

\* ------------------------------------------------------------ bounds

\* The longest path tried: more segments than the length byte can count.
MaxPathLen == 256
\* The longest message tried, in characters.
MaxMsgLen == 600
\* The payload length of the longest reply tried (a 32-byte public key).
MaxKeyLen == 32

\* ------------------------------------------------------------ inputs

\* An unsigned 32-bit segment is kept as its two 16-bit halves <<hi, lo>>,
\* value hi * 65536 + lo.
PathSeg(kind, i) ==
    IF kind = "plain"
    THEN <<0, <<44, 3030, 0, 0, 0>>[((i - 1) % 5) + 1]>>
    ELSE <<32768 + ((i * 258) % 32768), (i * 772 + 44) % 65536>>

PathOf(kind, len) == [i \in 1..len |-> PathSeg(kind, i)]

\* The paths tried: "44/3030/0/0/0", and hardened paths of 1, 62 and 63
\* segments (encoded in 5, 249 and 253 bytes), of 127 segments (the longest
\* the encoder takes), of 128 and of MaxPathLen.
Paths ==
    {PathOf("plain", 5)}
        \cup {PathOf("hardened", len) : len \in {1, 62, 63, 127, 128, MaxPathLen}}

\* A message is a string, kept as its sequence of code points below 2048.
\* An "ascii" message has one-byte characters only; a "mixed" one has a
\* two-byte character (U+00E9) at every seventh place.
MsgChar(kind, i) ==
    IF kind = "mixed" /\ i % 7 = 0 THEN 233 ELSE 32 + ((i * 7) % 90)

MessageOf(kind, len) == [i \in 1..len |-> MsgChar(kind, i)]

MsgLens == {0, 1, CHUNK_SIZE, CHUNK_SIZE + 1, 2 * CHUNK_SIZE, MaxMsgLen}

MsgKinds == {"ascii", "mixed"}

KeyBytes(len) == [i \in 1..len |-> (i * 5 + 3) % 256]

\* What the transport may answer: payload bytes followed by a status word
\* (SW_OK 0x90 0x00, SW_CANCEL 0x69 0x86, another status 0x6a 0x80), and
\* replies too short to hold a status word.
Replies ==
    { <<144, 0>>,
      <<105, 134>>,
      <<1, 5, 7, 9, 105, 134>>,
      <<0, 1, 2, 3, 144, 0>>,
      <<106, 128>>,
      <<144>>,
      <<>>,
      KeyBytes(MaxKeyLen) \o <<144, 0>> }

\* ------------------------------------------------------------ state

VARIABLES
    op,        \* the public method called
    bipPath,   \* BIPPath.fromString(path).toPathArray()
    display,   \* getAddress's display argument
    message,   \* signTransaction's message argument
    pc,        \* where the call is
    buffer,    \* signTransaction's buffer, Buffer.from(message)
    chunks,    \* signTransaction's chunks array
    index,     \* foreach's index
    sent,      \* the frames handed to transport.send, in order
    inflight,  \* frames sent and not yet answered
    replies,   \* the replies the transport returned, in order
    response,  \* the response variable of the method
    result,    \* the value the call resolved with
    error      \* the error the call rejected with

vars == <<op, bipPath, display, message, pc, buffer, chunks, index, sent, inflight,
          replies, response, result, error>>

\* ------------------------------------------------------------ buffers

Min(a, b) == IF a < b THEN a ELSE b

\* Slice as if end were the index of the last byte taken.
SliceInclusive(buf, start, end) == SubSeq(buf, start + 1, Min(end + 1, Len(buf)))

\* buffer.slice(start, end) with 0 <= start: end is clamped to the length.
Slice(buf, start, end) == SubSeq(buf, start + 1, Min(end, Len(buf)))

\* buffer.slice(-2): the last two bytes, or the whole buffer if shorter.
SliceLast2(buf) ==
    SubSeq(buf, (IF Len(buf) >= 2 THEN Len(buf) - 2 ELSE 0) + 1, Len(buf))

\* buf[i] (0-based) in arithmetic: NaN when i is past the end.
ByteAt(buf, i) == IF i < Len(buf) THEN buf[i + 1] ELSE NaN

\* "" + buf[i] (0-based).
ByteStr(buf, i) == IF i < Len(buf) THEN ToString(buf[i + 1]) ELSE "undefined"

\* a * 0x100 + b in JavaScript numbers.
StatusOf(a, b) == IF a = NaN \/ b = NaN THEN NaN ELSE a * 256 + b

Utf8Char(c) == IF c < 128 THEN <<c>> ELSE <<192 + (c \div 64), 128 + (c % 64)>>

RECURSIVE Utf8(_)
Utf8(str) ==
    IF Len(str) = 0 THEN <<>>
    ELSE IF Len(str) = 1 THEN Utf8Char(str[1])
    ELSE LET h == Len(str) \div 2
         IN  CHOOSE bytes \in
                 {Utf8(a) \o Utf8(b) : a \in {SubSeq(str, 1, h)},
                                       b \in {SubSeq(str, h + 1, Len(str))}} :
                 TRUE

\* Buffer.from(message) of a string: its UTF-8 bytes.
BufferFrom(str) == Utf8(str)

HexDigits == <<"0", "1", "2", "3", "4", "5", "6", "7",
               "8", "9", "a", "b", "c", "d", "e", "f">>

\* buf.toString("hex"): two lower-case digits per byte.
ToHex(buf) ==
    [k \in 1..(2 * Len(buf)) |->
        LET b == buf[(k + 1) \div 2]
        IN  HexDigits[(IF k % 2 = 1 THEN b \div 16 ELSE b % 16) + 1]]

\* ------------------------------------------------------------ serializePath

\* data.writeUInt32BE(segment, ...): the four bytes, most significant first.
writeUInt32BE(seg) ==
    <<seg[1] \div 256, seg[1] % 256, seg[2] \div 256, seg[2] % 256>>

\* serializePathThrows as if the length byte were written unchecked.
serializePathUnchecked(path) == FALSE

\* data.writeInt8(path.length, 0) throws a RangeError above 127.
serializePathThrows(path) == Len(path) > 127

serializePath(path) ==
    [k \in 1..(1 + Len(path) * 4) |->
        IF k = 1 THEN Len(path)
        ELSE writeUInt32BE(path[((k - 2) \div 4) + 1])[((k - 2) % 4) + 1]]

\* ------------------------------------------------------------ chunking

\* The for loop of signTransaction from offset i on.
RECURSIVE sliceLoop(_, _, _)
sliceLoop(buf, i, acc) ==
    IF i < Len(buf)
    THEN LET end == IF i > Len(buf) THEN Len(buf) ELSE i + CHUNK_SIZE
         IN  sliceLoop(buf, i + CHUNK_SIZE, Append(acc, Slice(buf, i, end)))
    ELSE acc

\* makeChunks as if the path and the message were joined before slicing.
makeChunksJoined(serializedPath, buf) ==
    sliceLoop(serializedPath \o buf, 0, <<>>)

\* chunks: the serialized path, then the slices of the message buffer.
makeChunks(serializedPath, buf) ==
    sliceLoop(buf, 0, <<serializedPath>>)

\* payloadType as if the last chunk were the one at index n.
payloadTypeOffByOne(j, n) ==
    IF j = 0 THEN PAYLOAD_TYPE_INIT
    ELSE IF j = n THEN PAYLOAD_TYPE_LAST
    ELSE PAYLOAD_TYPE_ADD

\* The parameter 1 of the frame of chunk j (0-based) out of n.
payloadType(j, n) ==
    IF j = 0 THEN PAYLOAD_TYPE_INIT
    ELSE IF j + 1 = n THEN PAYLOAD_TYPE_LAST
    ELSE PAYLOAD_TYPE_ADD

\* ------------------------------------------------------------ decoding

\* returnCodeOf as if the status word were little-endian.
returnCodeLittleEndian(resp) ==
    LET errorCodeData == SliceLast2(resp)
    IN  StatusOf(ByteAt(errorCodeData, 1), ByteAt(errorCodeData, 0))

\* errorCodeData[0] * 0x100 + errorCodeData[1] of response.slice(-2).
returnCodeOf(resp) ==
    LET errorCodeData == SliceLast2(resp)
    IN  StatusOf(ByteAt(errorCodeData, 0), ByteAt(errorCodeData, 1))

\* getAddress's returned object.
addressResult(resp) ==
    [kind       |-> "AddressResult",
     publicKey  |-> ToHex(resp),
     address    |-> "",
     returnCode |-> returnCodeOf(resp)]

\* signTransaction's signature: null unless the response is longer than 2.
signatureOf(resp) ==
    IF Len(resp) > 2
    THEN [isNull |-> FALSE, bytes |-> Slice(resp, 0, Len(resp) - 2)]
    ELSE [isNull |-> TRUE, bytes |-> <<>>]

\* signTransaction's returned object.
signResult(resp) ==
    [kind       |-> "SignResult",
     signature  |-> signatureOf(resp),
     returnCode |-> returnCodeOf(resp)]

\* versionResult as if the version started at offset 0.
versionResultFromZero(resp) ==
    [kind    |-> "VersionResult",
     version |-> ByteStr(resp, 0) \o "." \o ByteStr(resp, 1) \o "."
                 \o ByteStr(resp, 2)]

\* getAppConfiguration's returned object.
versionResult(resp) ==
    [kind    |-> "VersionResult",
     version |-> ByteStr(resp, 1) \o "." \o ByteStr(resp, 2) \o "."
                 \o ByteStr(resp, 3)]

NoResult == [kind |-> "none"]

\* ------------------------------------------------------------ transport

\* Frame as if the status list were not passed on to transport.send.
FrameDefaultStatus(ins, p1, data, statusList, j) ==
    [cla |-> CLA, ins |-> ins, p1 |-> p1, p2 |-> 0, data |-> data,
     statusList |-> <<>>, j |-> j]

\* One call of transport.send(cla, ins, p1, p2, data, statusList); j is the
\* index of the chunk it carries. An omitted data or statusList is <<>>.
Frame(ins, p1, data, statusList, j) ==
    [cla |-> CLA, ins |-> ins, p1 |-> p1, p2 |-> 0, data |-> data,
     statusList |-> statusList, j |-> j]

Send(f) ==
    /\ sent' = Append(sent, f)
    /\ inflight' = inflight + 1

Receive(r) ==
    /\ replies' = Append(replies, r)
    /\ inflight' = inflight - 1
    /\ response' = r

Throw(e) ==
    /\ pc' = "failed"
    /\ error' = e

\* ------------------------------------------------------------ the calls

Ops == {"getAddress", "signTransaction", "getAppConfiguration"}

Init ==
    /\ op \in Ops
    /\ bipPath \in (IF op = "getAppConfiguration" THEN {<<>>} ELSE Paths)
    /\ display \in (IF op = "getAddress" THEN BOOLEAN ELSE {FALSE})
    /\ \E kind \in MsgKinds, len \in MsgLens :
          message = IF op = "signTransaction" THEN MessageOf(kind, len) ELSE <<>>
    /\ pc = "call"
    /\ buffer = <<>>
    /\ chunks = <<>>
    /\ index = 0
    /\ sent = <<>>
    /\ inflight = 0
    /\ replies = <<>>
    /\ response = <<>>
    /\ result = NoResult
    /\ error = "none"

\* getAddressCall as if the display argument were ignored.
getAddressCallNoDisplay ==
    /\ op = "getAddress" /\ pc = "call"
    /\ IF serializePathThrows(bipPath)
       THEN /\ Throw("RangeError")
            /\ UNCHANGED <<sent, inflight>>
       ELSE /\ Send(Frame(INS_GET_ADDR, 0, serializePath(bipPath),
                          <<SW_OK, SW_CANCEL>>, 0))
            /\ pc' = "awaiting"
            /\ UNCHANGED error
    /\ UNCHANGED <<op, bipPath, display, message, buffer, chunks, index, replies,
                   response, result>>

\* getAddress up to its await.
getAddressCall ==
    /\ op = "getAddress" /\ pc = "call"
    /\ IF serializePathThrows(bipPath)
       THEN /\ Throw("RangeError")
            /\ UNCHANGED <<sent, inflight>>
       ELSE /\ Send(Frame(INS_GET_ADDR, IF display THEN 1 ELSE 0,
                          serializePath(bipPath), <<SW_OK, SW_CANCEL>>, 0))
            /\ pc' = "awaiting"
            /\ UNCHANGED error
    /\ UNCHANGED <<op, bipPath, display, message, buffer, chunks, index, replies,
                   response, result>>

\* getAddressReply as if the refusal were not looked for.
getAddressReplyNoCheck ==
    /\ op = "getAddress" /\ pc = "awaiting"
    /\ \E r \in Replies :
          /\ Receive(r)
          /\ result' = addressResult(r)
    /\ pc' = "done"
    /\ UNCHANGED <<op, bipPath, display, message, buffer, chunks, index, sent,
                   error>>

\* getAddress from the reply on.
getAddressReply ==
    /\ op = "getAddress" /\ pc = "awaiting"
    /\ \E r \in Replies :
          /\ Receive(r)
          /\ IF returnCodeOf(r) = SW_CANCEL
             THEN /\ Throw("UserRefusedAddress")
                  /\ UNCHANGED result
             ELSE /\ result' = addressResult(r)
                  /\ pc' = "done"
                  /\ UNCHANGED error
    /\ UNCHANGED <<op, bipPath, display, message, buffer, chunks, index, sent>>

\* signTransaction up to the call of foreach.
signTransactionCall ==
    /\ op = "signTransaction" /\ pc = "call"
    /\ IF serializePathThrows(bipPath)
       THEN /\ Throw("RangeError")
            /\ UNCHANGED <<buffer, chunks>>
       ELSE /\ buffer' = BufferFrom(message)
            /\ chunks' = makeChunks(serializePath(bipPath), buffer')
            /\ pc' = "iterate"
            /\ UNCHANGED error
    /\ UNCHANGED <<op, bipPath, display, message, index, sent, inflight,
                   replies, response, result>>

\* iterate as if the callback's promise were not waited for: the next chunk
\* is sent at once.
iterateNoWait ==
    /\ op = "signTransaction" /\ pc = "iterate"
    /\ IF index >= Len(chunks)
       THEN /\ pc' = "then"
            /\ UNCHANGED <<sent, inflight, index>>
       ELSE /\ Send(Frame(INS_SIGN, payloadType(index, Len(chunks)),
                          chunks[index + 1], <<SW_OK, SW_CANCEL>>, index))
            /\ index' = index + 1
            /\ pc' = "iterate"
    /\ UNCHANGED <<op, bipPath, display, message, buffer, chunks, replies,
                   response, result, error>>

\* foreach's iterate(index, array, result): the end of the array resolves the
\* promise of foreach, anything else calls the callback, which sends chunk
\* index and waits for its reply.
iterate ==
    /\ op = "signTransaction" /\ pc = "iterate"
    /\ IF index >= Len(chunks)
       THEN /\ pc' = "then"
            /\ UNCHANGED <<sent, inflight>>
       ELSE /\ Send(Frame(INS_SIGN, payloadType(index, Len(chunks)),
                          chunks[index + 1], <<SW_OK, SW_CANCEL>>, index))
            /\ pc' = "awaiting"
    /\ UNCHANGED <<op, bipPath, display, message, buffer, chunks, index, replies,
                   response, result, error>>

\* iterateReply as if iterate were called again with the same index.
iterateReplyNoAdvance ==
    /\ op = "signTransaction" /\ pc = "awaiting"
    /\ \E r \in Replies : Receive(r)
    /\ pc' = "iterate"
    /\ UNCHANGED <<op, bipPath, display, message, buffer, chunks, index, sent,
                   result, error>>

\* iterateReply as if a refusal ended the call at once, whatever the chunk.
iterateReplyStopOnRefusal ==
    /\ op = "signTransaction" /\ pc = "awaiting"
    /\ \E r \in Replies :
          /\ Receive(r)
          /\ IF returnCodeOf(r) = SW_CANCEL
             THEN /\ Throw("UserRefusedOnDevice")
                  /\ UNCHANGED index
             ELSE /\ index' = index + 1
                  /\ pc' = "iterate"
                  /\ UNCHANGED error
    /\ UNCHANGED <<op, bipPath, display, message, buffer, chunks, sent, result>>

\* iterateReply as if only the reply to the first chunk were kept.
iterateReplyKeepFirst ==
    /\ op = "signTransaction" /\ pc = "awaiting"
    /\ \E r \in Replies :
          /\ replies' = Append(replies, r)
          /\ inflight' = inflight - 1
          /\ response' = IF index = 0 THEN r ELSE response
    /\ index' = index + 1
    /\ pc' = "iterate"
    /\ UNCHANGED <<op, bipPath, display, message, buffer, chunks, sent, result, error>>

\* The reply to a chunk: response = apduResponse, then result.push(res) and
\* iterate(index + 1, array, result).
iterateReply ==
    /\ op = "signTransaction" /\ pc = "awaiting"
    /\ \E r \in Replies : Receive(r)
    /\ index' = index + 1
    /\ pc' = "iterate"
    /\ UNCHANGED <<op, bipPath, display, message, buffer, chunks, sent, result, error>>

\* signTransactionThen as if a refusal were raised only without a signature.
signTransactionThenUnlessSigned ==
    /\ op = "signTransaction" /\ pc = "then"
    /\ IF returnCodeOf(response) = SW_CANCEL /\ signatureOf(response).isNull
       THEN /\ Throw("UserRefusedOnDevice")
            /\ UNCHANGED result
       ELSE /\ result' = signResult(response)
            /\ pc' = "done"
            /\ UNCHANGED error
    /\ UNCHANGED <<op, bipPath, display, message, buffer, chunks, index, sent,
                   inflight, replies, response>>

\* The then callback of signTransaction, run when foreach has resolved.
signTransactionThen ==
    /\ op = "signTransaction" /\ pc = "then"
    /\ IF returnCodeOf(response) = SW_CANCEL
       THEN /\ Throw("UserRefusedOnDevice")
            /\ UNCHANGED result
       ELSE /\ result' = signResult(response)
            /\ pc' = "done"
            /\ UNCHANGED error
    /\ UNCHANGED <<op, bipPath, display, message, buffer, chunks, index, sent,
                   inflight, replies, response>>

\* getAppConfiguration up to its await.
getAppConfigurationCall ==
    /\ op = "getAppConfiguration" /\ pc = "call"
    /\ Send(Frame(INS_GET_VERSION, 0, <<>>, <<>>, 0))
    /\ pc' = "awaiting"
    /\ UNCHANGED <<op, bipPath, display, message, buffer, chunks, index, replies,
                   response, result, error>>

\* getAppConfiguration from the reply on.
getAppConfigurationReply ==
    /\ op = "getAppConfiguration" /\ pc = "awaiting"
    /\ \E r \in Replies :
          /\ Receive(r)
          /\ result' = versionResult(r)
    /\ pc' = "done"
    /\ UNCHANGED <<op, bipPath, display, message, buffer, chunks, index, sent, error>>

\* sendRejected as if signTransaction tried a rejected chunk again.
sendRejectedRetry ==
    /\ pc = "awaiting"
    /\ IF op = "signTransaction"
       THEN pc' = "iterate" /\ UNCHANGED error
       ELSE Throw("TransportError")
    /\ inflight' = inflight - 1
    /\ UNCHANGED <<op, bipPath, display, message, buffer, chunks, index, sent,
                   replies, response, result>>

\* transport.send rejects: the error propagates out of the call unchanged.
sendRejected ==
    /\ pc = "awaiting"
    /\ Throw("TransportError")
    /\ inflight' = inflight - 1
    /\ UNCHANGED <<op, bipPath, display, message, buffer, chunks, index, sent,
                   replies, response, result>>

Next ==
    \/ getAddressCall
    \/ getAddressReply
    \/ signTransactionCall
    \/ iterate
    \/ iterateReply
    \/ signTransactionThen
    \/ getAppConfigurationCall
    \/ getAppConfigurationReply
    \/ sendRejected

Spec == Init /\ [][Next]_vars

\* A signTransaction call of at most three frames.
SignInit ==
    /\ Init
    /\ op = "signTransaction"
    /\ Len(message) <= CHUNK_SIZE + 1

\* The steps of a signTransaction call.
SignNext ==
    \/ signTransactionCall
    \/ iterate
    \/ iterateReply
    \/ signTransactionThen
    \/ sendRejected

\* A signTransaction call when the transport answers every send, with a reply
\* or an error, and the event loop runs every callback that is ready.
FairSpec == SignInit /\ [][SignNext]_vars /\ WF_vars(SignNext)

\* ------------------------------------------------------------ properties

\* A signTransaction call all of whose sends were replied to.
SignAllReplied ==
    /\ op = "signTransaction"
    /\ pc \in {"then", "done", "failed"}
    /\ error \notin {"RangeError", "TransportError"}

CeilDiv(a, b) == (a + b - 1) \div b

\* The byte lengths of the message buffer and of the encoded path of the call.
MsgBytes == Len(buffer)
PathBytes == 1 + 4 * Len(bipPath)

DataSizes == [k \in 1..Len(sent) |-> Len(sent[k].data)]

\* C1: during a signTransaction call the frames are sent in increasing chunk
\* order, frame k+1 only after the reply to frame k: at most one frame is in
\* flight, and the k-th send carries chunk k-1.
C1_OneFrameInFlight ==
    op = "signTransaction" =>
        /\ inflight \in {0, 1}
        /\ Len(sent) = Len(replies) + inflight
              + (IF error = "TransportError" THEN 1 ELSE 0)
        /\ \A k \in 1..Len(sent) :
              sent[k].j = k - 1 /\ sent[k].data = chunks[k]

C1_Witness ==
    op = "signTransaction" /\ Len(sent) = 4 /\ Len(replies) = 3 /\ inflight = 1

C3_Original ==
    \A k \in 1..Len(sent) : Len(sent[k].data) <= CHUNK_SIZE

\* C4 as stated: the only frame of a single-frame signTransaction call is
\* tagged PAYLOAD_TYPE_LAST.
C4_Original ==
    (SignAllReplied /\ Len(sent) = 1) => sent[1].p1 = PAYLOAD_TYPE_LAST

\* C5: in a fully replied signTransaction call of n >= 2 frames, frame 0 is
\* tagged INIT, frame n-1 LAST and every frame between ADD, so exactly one
\* frame is tagged INIT and exactly one LAST.
C5_Tags ==
    (SignAllReplied /\ Len(sent) >= 2) =>
        LET n == Len(sent)
        IN  /\ sent[1].p1 = PAYLOAD_TYPE_INIT
            /\ sent[n].p1 = PAYLOAD_TYPE_LAST
            /\ \A k \in 2..(n - 1) : sent[k].p1 = PAYLOAD_TYPE_ADD
            /\ Cardinality({k \in 1..n : sent[k].p1 = PAYLOAD_TYPE_INIT}) = 1
            /\ Cardinality({k \in 1..n : sent[k].p1 = PAYLOAD_TYPE_LAST}) = 1

C5_Witness ==
    /\ SignAllReplied
    /\ Len(sent) = 4
    /\ sent[2].p1 = PAYLOAD_TYPE_ADD /\ sent[3].p1 = PAYLOAD_TYPE_ADD

\* The data of the frames, joined in send order.
RECURSIVE ConcatData(_)
ConcatData(frames) ==
    IF Len(frames) = 0 THEN <<>>
    ELSE ConcatData(SubSeq(frames, 1, Len(frames) - 1)) \o frames[Len(frames)].data

C7_Original ==
    (op = "getAddress" /\ pc = "done" /\ Len(replies[1]) >= 2) =>
        LET r == replies[1]
            n == Len(r)
        IN  /\ result.publicKey = ToHex(SubSeq(r, 1, n - 2))
            /\ result.returnCode = r[n - 1] * 256 + r[n]

\* C8: the result of signTransaction comes from the reply to the final frame
\* only. For a final reply of n >= 2 bytes the status code is the big-endian
\* value of its last two bytes and the signature is its first n-2 bytes, null
\* when n = 2; no earlier reply contributes.
C8_SignatureFromFinalReply ==
    (op = "signTransaction" /\ pc = "done") =>
        LET last == replies[Len(replies)]
            n == Len(last)
        IN  /\ Len(replies) = Len(chunks)
            /\ result.kind = "SignResult"
            /\ n >= 2 =>
                 /\ result.returnCode = last[n - 1] * 256 + last[n]
                 /\ IF n = 2
                    THEN result.signature.isNull
                    ELSE /\ ~result.signature.isNull
                         /\ result.signature.bytes = SubSeq(last, 1, n - 2)

C8_Witness ==
    /\ op = "signTransaction" /\ pc = "done"
    /\ Len(replies) = 3
    /\ replies[1] = <<0, 1, 2, 3, 144, 0>>
    /\ replies[3] = KeyBytes(MaxKeyLen) \o <<144, 0>>
    /\ result.signature.bytes = KeyBytes(MaxKeyLen)

\* A reply that ends in the status word USER_REFUSED, 0x69 0x86.
EndsInRefused(r) ==
    Len(r) >= 2 /\ r[Len(r) - 1] = 105 /\ r[Len(r)] = 134

\* C9: once the reply to the final frame of signTransaction ends in
\* USER_REFUSED, whatever precedes the status word, the call returns no result,
\* can only end by failing with UserRefusedOnDevice, and sends nothing more.
C9_UserRefusedOnDevice ==
    (/\ op = "signTransaction"
     /\ Len(chunks) > 0
     /\ Len(replies) = Len(chunks)
     /\ EndsInRefused(replies[Len(replies)])) =>
        /\ result = NoResult
        /\ pc \in {"iterate", "then", "failed"}
        /\ pc = "failed" => error = "UserRefusedOnDevice"
        /\ Len(sent) = Len(chunks) /\ inflight = 0

C9_Witness ==
    /\ op = "signTransaction"
    /\ pc = "failed" /\ error = "UserRefusedOnDevice"
    /\ Len(replies) = 3
    /\ replies[3] = <<1, 5, 7, 9, 105, 134>>

\* C10: when the reply to getAddress ends in USER_REFUSED the call fails with
\* UserRefusedAddress and returns nothing; it returns an AddressResult only
\* for a reply whose status is not USER_REFUSED.
C10_UserRefusedAddress ==
    (op = "getAddress" /\ Len(replies) = 1) =>
        /\ EndsInRefused(replies[1]) =>
              /\ pc = "failed" /\ error = "UserRefusedAddress"
              /\ result = NoResult
        /\ result.kind = "AddressResult" =>
              /\ ~EndsInRefused(replies[1])
              /\ result.returnCode # SW_CANCEL
        /\ Len(sent) = 1

C10_Witness ==
    /\ op = "getAddress"
    /\ pc = "failed" /\ error = "UserRefusedAddress"
    /\ replies = << <<1, 5, 7, 9, 105, 134>> >>

\* The calls that encode a path.
PathOps == {"getAddress", "signTransaction"}

\* The i-th segment read back from an encoded path: the big-endian group of
\* four bytes after the length byte, as its two 16-bit halves.
DecodeSeg(data, i) ==
    <<data[4 * i - 2] * 256 + data[4 * i - 1], data[4 * i] * 256 + data[4 * i + 1]>>

C12_EncodingFailsBeforeSend ==
    (op \in PathOps /\ Len(bipPath) > 255) =>
        /\ sent = <<>> /\ inflight = 0
        /\ result = NoResult
        /\ pc \in {"call", "failed"}
        /\ pc = "failed" => error = "RangeError"

C12_Witness ==
    /\ op = "signTransaction"
    /\ Len(bipPath) > 255
    /\ pc = "failed" /\ error = "RangeError"
    /\ sent = <<>>

\* C13: no frame is sent twice, and when the transport rejects the send of
\* frame k the call fails with that error: frame k stays the last frame sent,
\* it is not sent again and no later frame follows.
C13_NoResend ==
    /\ \A k1, k2 \in 1..Len(sent) : sent[k1].j = sent[k2].j => k1 = k2
    /\ Len(sent) <= (IF op = "signTransaction" THEN Len(chunks) ELSE 1)
    /\ error = "TransportError" =>
          /\ pc = "failed"
          /\ result = NoResult
          /\ inflight = 0
          /\ Len(sent) = Len(replies) + 1

C13_Witness ==
    /\ op = "signTransaction"
    /\ pc = "failed" /\ error = "TransportError"
    /\ Len(sent) = 2 /\ Len(chunks) = 4

\* The values of a status list.
StatusSet(list) == {list[i] : i \in 1..Len(list)}

\* C14 as stated: every send of every public operation passes a status list
\* that contains SUCCESS and USER_REFUSED.
C14_Original ==
    \A k \in 1..Len(sent) : {36864, 27014} \subseteq StatusSet(sent[k].statusList)

\* C14 as amended: every send of getAddress and of signTransaction passes a
\* status list that contains SUCCESS and USER_REFUSED; the send of
\* getAppConfiguration passes no status list.
C14_StatusLists ==
    \A k \in 1..Len(sent) :
        IF op = "getAppConfiguration"
        THEN sent[k].statusList = <<>>
        ELSE {36864, 27014} \subseteq StatusSet(sent[k].statusList)

C14_Witness ==
    /\ op = "signTransaction"
    /\ Len(sent) = 3
    /\ sent[3].statusList = <<SW_OK, SW_CANCEL>>

\* C15: a getAddress call whose path was encoded sends exactly one frame,
\* with class 0xE0, instruction 0x02, parameter 1 equal to 1 if display is set
\* and 0 otherwise, parameter 2 equal to 0 and the encoded path as data, and
\* never a second one, whatever the reply.
C15_GetAddressOneFrame ==
    op = "getAddress" =>
        /\ Len(sent) <= 1
        /\ (pc # "call" /\ error # "RangeError") =>
              /\ Len(sent) = 1
              /\ sent[1].cla = 224
              /\ sent[1].ins = 2
              /\ sent[1].p1 = (IF display THEN 1 ELSE 0)
              /\ sent[1].p2 = 0
              /\ sent[1].data = serializePath(bipPath)

C15_Witness ==
    /\ op = "getAddress" /\ display
    /\ pc = "done"
    /\ replies = << <<106, 128>> >>
    /\ Len(sent) = 1 /\ sent[1].p1 = 1

\* C16: getAppConfiguration sends exactly one frame, with class 0xE0,
\* instruction 0x00, both parameters 0 and no data; whatever the status word
\* of the reply it does not fail but returns the version made of the reply
\* bytes at offsets 1, 2 and 3, "1.2.3" for the reply 00 01 02 03 90 00.
C16_Version ==
    op = "getAppConfiguration" =>
        /\ Len(sent) <= 1
        /\ pc # "call" =>
              /\ Len(sent) = 1
              /\ sent[1].cla = 224
              /\ sent[1].ins = 0
              /\ sent[1].p1 = 0 /\ sent[1].p2 = 0
              /\ sent[1].data = <<>>
        /\ Len(replies) = 1 =>
              LET r == replies[1]
              IN  /\ pc = "done" /\ error = "none"
                  /\ Len(r) >= 4 =>
                        result.version =
                            ToString(r[2]) \o "." \o ToString(r[3]) \o "."
                                \o ToString(r[4])
                  /\ r = <<0, 1, 2, 3, 144, 0>> => result.version = "1.2.3"

C16_Witness ==
    /\ op = "getAppConfiguration"
    /\ pc = "done"
    /\ replies = << <<1, 5, 7, 9, 105, 134>> >>
    /\ result.version = "5.7.9"

\* The reply to the last frame of the call has been received.
FinalReplyIn ==
    /\ op \in PathOps
    /\ Len(replies) >= 1
    /\ Len(replies) = (IF op = "signTransaction" THEN Len(chunks) ELSE 1)

\* C17 as stated: when the reply to getAddress or to the final frame of
\* signTransaction is shorter than 2 bytes, the call fails and returns no
\* result.
C17_Original ==
    (FinalReplyIn /\ Len(replies[Len(replies)]) < 2) =>
        /\ result = NoResult
        /\ pc # "done"

\* C18: a USER_REFUSED reply to a frame that is not the last one does not end
\* a signTransaction call: the frames go on in order, the call fails with
\* UserRefusedOnDevice only after the reply to the final frame and exactly
\* when that reply ends in USER_REFUSED, whatever the earlier replies were.
C18_RefusalMidway ==
    op = "signTransaction" =>
        /\ \A k \in 1..Len(sent) : sent[k].j = k - 1
        /\ (pc = "failed" /\ Len(replies) < Len(chunks)) =>
              error = "TransportError"
        /\ (pc = "failed" /\ error = "UserRefusedOnDevice") =>
              /\ Len(sent) = Len(chunks) /\ Len(replies) = Len(chunks)
              /\ EndsInRefused(replies[Len(replies)])
        /\ pc = "done" =>
              /\ Len(sent) = Len(chunks) /\ Len(replies) = Len(chunks)
              /\ ~EndsInRefused(replies[Len(replies)])

C18_Witness ==
    /\ op = "signTransaction"
    /\ pc = "done"
    /\ Len(replies) = 3
    /\ EndsInRefused(replies[1]) /\ EndsInRefused(replies[2])

\* A reply a transport that enforces the status list may return: at least two
\* bytes, ending in a status word of the list.
Conforming(r, list) ==
    /\ Len(r) >= 2
    /\ (r[Len(r) - 1] * 256 + r[Len(r)]) \in StatusSet(list)

AllConforming ==
    \A k \in 1..Len(replies) : Conforming(replies[k], sent[k].statusList)

\* C19: when every reply the transport returned has at least two bytes and a
\* status word of the status list passed with its frame, a result returned by
\* getAddress or signTransaction has the status code SUCCESS (0x9000).
C19_OnlySuccess ==
    (op \in PathOps /\ pc = "done" /\ AllConforming) =>
        result.returnCode = 36864

C19_Witness ==
    /\ op = "signTransaction"
    /\ pc = "done"
    /\ AllConforming
    /\ Len(replies) = 3
    /\ EndsInRefused(replies[2])
    /\ result.returnCode = SW_OK

\* The call has resolved or rejected.
Completed == pc \in {"done", "failed"}

\* The sends of a signTransaction call all of whose sends are replied to: none
\* when the encoder rejects the path, else one for the path and one for every
\* 250 bytes of the message buffer.
SignSends ==
    IF Len(bipPath) > 127 THEN 0 ELSE 1 + CeilDiv(Len(buffer), CHUNK_SIZE)

\* C20 as stated: a completed signTransaction call has sent a number of
\* frames fixed by the lengths of the path and of the message alone.
C20_Original ==
    (op = "signTransaction" /\ Completed) => Len(sent) = SignSends

\* C20 as amended: when the transport answers every send, a signTransaction
\* call completes; it sends at most the number of frames fixed by the lengths
\* of the path and of the message, exactly that number unless the transport
\* answered a send with an error, and nothing after it has completed.
C20_Termination ==
    /\ (op = "signTransaction") ~> Completed
    /\ [](op = "signTransaction" => Len(sent) <= SignSends)
    /\ []((op = "signTransaction" /\ Completed /\ error # "TransportError")
            => Len(sent) = SignSends)
    /\ [][Completed => (sent' = sent /\ pc' = pc)]_vars

C20_Witness ==
    /\ op = "signTransaction"
    /\ pc = "done"
    /\ Len(sent) = 3 /\ SignSends = 3

====
